---------------------------- MODULE Spec2Model ----------------------------
(***************************************************************************)
(* Model of src/correct_sales.py: load_data followed by                    *)
(* process_sales_data.  A data frame is a function from its row positions  *)
(* 0..n-1 to records of its columns.  A cell that pandas holds as NaN is   *)
(* the empty tuple; a known cell is the one-element tuple of its value.    *)
(* Calendar dates are day numbers.  The IsolationForest is opaque: its     *)
(* fit_predict may return any label vector over the days.                  *)
(***************************************************************************)
EXTENDS Integers, Sequences, FiniteSets

\* Bounds of the explored inputs.
MaxRows == 3
MaxDate == 4
MaxTotal == 3

VARIABLES
    pc,                 \* position in main / process_sales_data
    raw,                \* rows of the CSV file, in file order, not yet read
    df,                 \* the frame returned by load_data (mutated at lines 24-26)
    df_final,           \* df_full / df_final of process_sales_data
    i,                  \* loop variable of the gap-filling loop (line 35)
    iso_anomalies,      \* line 67
    negatives,          \* line 70
    anomalies,          \* line 71
    original_anomalies  \* line 75

vars == <<pc, raw, df, df_final, i, iso_anomalies, negatives, anomalies,
          original_anomalies>>

NaN == <<>>

isna(x) == x = NaN

Val(x) == x[1]

fillna(x, v) == IF isna(x) THEN <<v>> ELSE x

Len0(f) == Cardinality(DOMAIN f)

Empty == [k \in {} |-> NaN]

Abs(x) == IF x < 0 THEN -x ELSE x

Min(S) == CHOOSE x \in S : \A y \in S : x <= y

Max(S) == CHOOSE x \in S : \A y \in S : y <= x

\* A row of the input file: read_csv gives the "Date" and "Total Sales" columns.
CsvRows == [Date : 1..MaxDate, TotalSales : 0..MaxTotal]

---------------------------------------------------------------------------
(* load_data, lines 11-16 *)

\* drop_duplicates(subset="Date", keep="first"): the file positions kept.
drop_duplicates(rows) ==
    {p \in DOMAIN rows : \A q \in DOMAIN rows : q < p => rows[q].Date # rows[p].Date}

\* sort_values("Date") of the kept rows; each row keeps the index label read_csv
\* gave it (its position in the file, from 0).
sort_values(rows, kept) ==
    [k \in 0..(Cardinality(kept) - 1) |->
        LET p == CHOOSE p \in kept :
                    Cardinality({q \in kept : rows[q].Date < rows[p].Date}) = k
        IN  [Index |-> p - 1, Date |-> rows[p].Date, TotalSales |-> rows[p].TotalSales]]

load_data ==
    /\ pc = "load"
    /\ df' = sort_values(raw, drop_duplicates(raw))
    /\ raw' = <<>>
    /\ pc' = "deltas"
    /\ UNCHANGED <<df_final, i, iso_anomalies, negatives, anomalies, original_anomalies>>

---------------------------------------------------------------------------
(* process_sales_data, lines 24-26 *)

\* Variant of diff: Series.diff(periods=-1), the difference to the row after.
diff_backward(d) ==
    [k \in DOMAIN d |->
        IF k = Len0(d) - 1 THEN NaN ELSE <<d[k].TotalSales - d[k + 1].TotalSales>>]

\* Series.diff(): NaN in the first row, then the difference to the row before.
diff(d) ==
    [k \in DOMAIN d |->
        IF k = 0 THEN NaN ELSE <<d[k].TotalSales - d[k - 1].TotalSales>>]

\* df.loc[df.index == 0, "Notes"] = "Assumed" over Notes = "Delta".
InitialNote(row) == IF row.Index = 0 THEN "Assumed" ELSE "Delta"

ComputeDeltas ==
    /\ pc = "deltas"
    /\ df' = [k \in DOMAIN df |->
                [Index |-> df[k].Index, Date |-> df[k].Date,
                 TotalSales |-> df[k].TotalSales,
                 Daily_Sales |-> Val(fillna(diff(df)[k], 0)),
                 Notes |-> InitialNote(df[k])]]
    /\ pc' = "reindex"
    /\ UNCHANGED <<raw, df_final, i, iso_anomalies, negatives, anomalies,
                   original_anomalies>>

---------------------------------------------------------------------------
(* process_sales_data, lines 29-34 *)

\* Variant of date_range: one day past the end.
date_range_past_end(start, end) == start..(end + 1)

\* pd.date_range(start, end, freq="D")
date_range(start, end) == start..end

\* set_index("Date").reindex(full_dates).reset_index(): one row per date of
\* full_dates, NaN in every column of a date df has no row for.
reindex(d, full_dates) ==
    [k \in 0..(Cardinality(full_dates) - 1) |->
        LET date == Min(full_dates) + k
            hit  == {r \in DOMAIN d : d[r].Date = date}
        IN  IF hit = {}
            THEN [Date |-> date, TotalSales |-> NaN, Daily_Sales |-> NaN, Notes |-> NaN]
            ELSE LET r == CHOOSE r \in hit : TRUE
                 IN  [Date |-> date, TotalSales |-> <<d[r].TotalSales>>,
                      Daily_Sales |-> <<d[r].Daily_Sales>>, Notes |-> <<d[r].Notes>>]]

FillMissingDates ==
    /\ pc = "reindex"
    /\ LET dates == {df[k].Date : k \in DOMAIN df}
       IN  df_final' = reindex(df, date_range(Min(dates), Max(dates)))
    /\ i' = 1
    /\ pc' = "gaps"
    /\ UNCHANGED <<raw, df, iso_anomalies, negatives, anomalies, original_anomalies>>

---------------------------------------------------------------------------
(* process_sales_data, lines 35-57 *)

\* Round a quotient num/den (den > 0) to the nearest integer, ties to even:
\* what Python's round() and numpy's round do on a float.
RoundHalfEven(num, den) ==
    LET q == num \div den
        r == num - q * den
    IN  IF 2 * r < den THEN q
        ELSE IF 2 * r > den THEN q + 1
        ELSE IF q % 2 = 0 THEN q ELSE q + 1

\* Variant of round: ties rounded up, floor(x + 1/2).
round_half_up(total_delta, gap_size) == (2 * total_delta + gap_size) \div (2 * gap_size)

\* round(total_delta / gap_size), line 51
round(total_delta, gap_size) == RoundHalfEven(total_delta, gap_size)

\* lines 37-39: while start_idx >= 0 and isna(Total Sales[start_idx]): start_idx -= 1
RECURSIVE ScanBack(_, _)
ScanBack(d, s) ==
    IF s >= 0 /\ isna(d[s].TotalSales) THEN ScanBack(d, s - 1) ELSE s

\* lines 42-44: while end_idx < len and isna(Total Sales[end_idx]): end_idx += 1
RECURSIVE ScanFwd(_, _)
ScanFwd(d, e) ==
    IF e < Len0(d) /\ isna(d[e].TotalSales) THEN ScanFwd(d, e + 1) ELSE e

\* lines 52-54: the rows start_idx+1 .. end_idx get avg_delta and "Assumed".
AssignGap(d, start_idx, end_idx, avg_delta) ==
    [j \in DOMAIN d |->
        IF start_idx + 1 <= j /\ j <= end_idx
        THEN [d[j] EXCEPT !.Daily_Sales = <<avg_delta>>, !.Notes = <<"Assumed">>]
        ELSE d[j]]

\* Variant of GapCondition: without the clause for the last row.
GapCondition_missing_only(d, k) == isna(d[k].TotalSales)

\* line 36: the rows the loop body acts on.
GapCondition(d, k) == isna(d[k].TotalSales) \/ k = Len0(d) - 1

\* One iteration of the loop of line 35, lines 36-54.
GapFill(d, k) ==
    IF GapCondition(d, k)
    THEN LET s0        == ScanBack(d, k - 1)
             start_idx == IF s0 < 0 THEN 0 ELSE s0
             end_idx   == ScanFwd(d, k)
         IN  IF end_idx < Len0(d)
                /\ ~isna(d[start_idx].TotalSales) /\ ~isna(d[end_idx].TotalSales)
             THEN AssignGap(d, start_idx, end_idx,
                            round(Val(d[end_idx].TotalSales) - Val(d[start_idx].TotalSales),
                                  end_idx - start_idx))
             ELSE d
    ELSE d

GapFillStep ==
    /\ pc = "gaps"
    /\ i < Len0(df_final)
    /\ df_final' = GapFill(df_final, i)
    /\ i' = i + 1
    /\ UNCHANGED <<pc, raw, df, iso_anomalies, negatives, anomalies, original_anomalies>>

\* lines 56-57: Daily_Sales.fillna(0).astype(int), Notes.fillna("Assumed")
FillRemaining(d) ==
    [k \in DOMAIN d |->
        [d[k] EXCEPT !.Daily_Sales = fillna(d[k].Daily_Sales, 0),
                     !.Notes = fillna(d[k].Notes, "Assumed")]]

GapFillDone ==
    /\ pc = "gaps"
    /\ i >= Len0(df_final)
    /\ df_final' = FillRemaining(df_final)
    /\ pc' = "detect"
    /\ UNCHANGED <<raw, df, i, iso_anomalies, negatives, anomalies, original_anomalies>>

---------------------------------------------------------------------------
(* process_sales_data, lines 64-75 *)

\* line 70
Negatives(d) == [k \in DOMAIN d |-> Val(d[k].Daily_Sales) < 0]

\* Variant of Anomalies: the model's labels alone, no override for negatives.
Anomalies_model_only(iso, neg) == [k \in DOMAIN iso |-> iso[k]]

\* line 71
Anomalies(iso, neg) == [k \in DOMAIN iso |-> iso[k] \/ neg[k]]

\* Variant of OriginalAnomalies: the flagged rows of df_final itself.
OriginalAnomalies_from_final(d, dfin, anom) ==
    LET sel == {k \in DOMAIN dfin : anom[k]}
    IN  [n \in 0..(Cardinality(sel) - 1) |->
            LET r == CHOOSE r \in sel : Cardinality({q \in sel : q < r}) = n
            IN  [Date |-> dfin[r].Date, Daily_Sales |-> Val(dfin[r].Daily_Sales)]]

\* lines 74-75: the rows of df (the frame of load_data, with the deltas of line
\* 24) whose Date is the date of a flagged day, columns Date and Daily_Sales.
OriginalAnomalies(d, dfin, anom) ==
    LET anomaly_dates == {dfin[k].Date : k \in {k \in DOMAIN dfin : anom[k]}}
        sel == {r \in DOMAIN d : d[r].Date \in anomaly_dates}
    IN  [n \in 0..(Cardinality(sel) - 1) |->
            LET r == CHOOSE r \in sel : Cardinality({q \in sel : q < r}) = n
            IN  [Date |-> d[r].Date, Daily_Sales |-> d[r].Daily_Sales]]

\* fit_predict (line 66) returns a label 1 or -1 per day.
Detect ==
    /\ pc = "detect"
    /\ \E labels \in [DOMAIN df_final -> {1, -1}] :
          /\ iso_anomalies' = [k \in DOMAIN df_final |-> labels[k] = -1]
          /\ negatives' = Negatives(df_final)
          /\ anomalies' = Anomalies(iso_anomalies', negatives')
          /\ original_anomalies' = OriginalAnomalies(df, df_final, anomalies')
    /\ pc' = "correct"
    /\ UNCHANGED <<raw, df, df_final, i>>

---------------------------------------------------------------------------
(* process_sales_data, lines 77-88 *)

\* line 78: df_final.loc[anomalies, "Daily_Sales"] = np.nan
MaskAnomalies(d, anom) ==
    [k \in DOMAIN d |-> IF anom[k] THEN NaN ELSE d[k].Daily_Sales]

\* Variant of interpolate: every NaN takes the last known value before it.
interpolate_ffill(s) ==
    LET valid == {k \in DOMAIN s : ~isna(s[k])}
    IN  [k \in DOMAIN s |->
            IF ~isna(s[k]) THEN <<[num |-> Val(s[k]), den |-> 1]>>
            ELSE LET before == {v \in valid : v < k}
                 IN  IF before = {} THEN NaN
                     ELSE <<[num |-> Val(s[Max(before)]), den |-> 1]>>]

\* Series.interpolate(method="linear") with pandas' defaults (limit_direction
\* "forward", no limit_area): a NaN between two known values gets the straight
\* line over the row positions, a NaN after the last known value gets that
\* value, a NaN before the first known value stays NaN.  A value is the
\* quotient num/den.
interpolate(s) ==
    LET valid == {k \in DOMAIN s : ~isna(s[k])}
    IN  [k \in DOMAIN s |->
            IF ~isna(s[k]) THEN <<[num |-> Val(s[k]), den |-> 1]>>
            ELSE LET before == {v \in valid : v < k}
                     after  == {v \in valid : v > k}
                 IN  IF before = {} THEN NaN
                     ELSE IF after = {} THEN <<[num |-> Val(s[Max(before)]), den |-> 1]>>
                     ELSE LET l == Max(before)
                              r == Min(after)
                          IN  <<[num |-> Val(s[l]) * (r - l) + (Val(s[r]) - Val(s[l])) * (k - l),
                                 den |-> r - l]>>]

\* Series.round(), line 80
SeriesRound(x) == RoundHalfEven(x.num, x.den)

\* lines 78-80: the corrected Daily_Sales column.
CorrectedSales(d, anom) ==
    LET s == interpolate(MaskAnomalies(d, anom))
    IN  [k \in DOMAIN d |-> SeriesRound(Val(fillna(s[k], [num |-> 0, den |-> 1])))]

\* Variant of CorrectedNotes: the notes left as gap filling set them.
CorrectedNotes_unchanged(d, anom) == [k \in DOMAIN d |-> d[k].Notes]

\* line 81: df_final.loc[anomalies, "Notes"] = "Assumed"
CorrectedNotes(d, anom) ==
    [k \in DOMAIN d |-> IF anom[k] THEN <<"Assumed">> ELSE d[k].Notes]

Correct ==
    /\ pc = "correct"
    /\ df_final' = [k \in DOMAIN df_final |->
                      [df_final[k] EXCEPT
                          !.Daily_Sales = <<CorrectedSales(df_final, anomalies)[k]>>,
                          !.Notes = CorrectedNotes(df_final, anomalies)[k]]]
    /\ pc' = "done"
    /\ UNCHANGED <<raw, df, i, iso_anomalies, negatives, anomalies, original_anomalies>>

---------------------------------------------------------------------------

Init ==
    /\ pc = "load"
    /\ raw \in UNION {[1..n -> CsvRows] : n \in 1..MaxRows}
    /\ df = Empty
    /\ df_final = Empty
    /\ i = 0
    /\ iso_anomalies = Empty
    /\ negatives = Empty
    /\ anomalies = Empty
    /\ original_anomalies = Empty

Next ==
    \/ load_data
    \/ ComputeDeltas
    \/ FillMissingDates
    \/ GapFillStep
    \/ GapFillDone
    \/ Detect
    \/ Correct

Spec == Init /\ [][Next]_vars

---------------------------------------------------------------------------
(* Properties *)

Days == DOMAIN df_final

Last == Len0(df_final) - 1

Sales(k) == Val(df_final[k].Daily_Sales)

Note(k) == Val(df_final[k].Notes)

Total(k) == Val(df_final[k].TotalSales)

\* The day had a raw observation.
Observed(k) == ~isna(df_final[k].TotalSales)

\* The index label (position in the file) of the row of df observed on day k.
IndexLabel(k) ==
    LET r == CHOOSE r \in DOMAIN df : df[r].Date = df_final[k].Date IN df[r].Index

\* The nearest observed day before day k.
PrevObserved(k) == Max({j \in Days : j < k /\ Observed(j)})

\* The normalizer's delta of an observed day: its total minus the total of the
\* previous observation, 0 on the earliest day.
NormalizerDelta(k) == IF k = 0 THEN 0 ELSE Total(k) - Total(PrevObserved(k))

Unflagged == {k \in Days : ~anomalies[k]}

\* v is an integer nearest to num/den (den > 0).
IsNearest(v, num, den) == 2 * Abs(v * den - num) <= den

\* v is the integer nearest to num/den, the even one on a tie.
IsNearestTiesEven(v, num, den) ==
    /\ IsNearest(v, num, den)
    /\ 2 * Abs(v * den - num) = den => v % 2 = 0

GapFilled == pc \in {"detect", "correct"}

\* C1: the record of the earliest date of the returned series carries the note
\* Assumed, whatever the order of the input rows and the model's labels.
C1_Day0Assumed == pc = "done" => Note(0) = "Assumed"

\* C2: the returned series has exactly one record per calendar day from the
\* minimum to the maximum observed date, the dates consecutive, and every record
\* has an integer delta and a note.
C2_ContiguousCalendar ==
    pc = "done" =>
        LET dates == {df[r].Date : r \in DOMAIN df}
        IN  /\ Len0(df_final) = Max(dates) - Min(dates) + 1
            /\ Days = 0..(Max(dates) - Min(dates))
            /\ \A k \in Days :
                  /\ df_final[k].Date = Min(dates) + k
                  /\ ~isna(df_final[k].Daily_Sales)
                  /\ Sales(k) \in Int
                  /\ df_final[k].Notes \in {<<"Delta">>, <<"Assumed">>}

C2_Witness ==
    /\ pc = "done"
    /\ Len0(df_final) = 4
    /\ \E k \in Days : ~Observed(k)
    /\ \E k \in Days : Note(k) = "Delta"

\* C3 as stated: after gap filling, every observed day other than day 0 keeps
\* the normalizer's delta and the note Delta, and only day 0 and the days
\* without a raw observation are tagged Assumed.
C3_ObservedDaysKept ==
    GapFilled =>
        \A k \in Days :
            /\ (k # 0 /\ Observed(k)) =>
                  (Sales(k) = NormalizerDelta(k) /\ Note(k) = "Delta")
            /\ Note(k) = "Assumed" => (k = 0 \/ ~Observed(k))

\* C3 amended: after gap filling, an observed day other than day 0 whose
\* previous calendar day is observed too keeps the normalizer's delta, and has
\* the note Delta unless it is the last day of the series or the first row of
\* the input file; an observed day that closes a gap is tagged Assumed.
C3_ObservedAfterObservedKept ==
    GapFilled =>
        \A k \in Days :
            (k # 0 /\ Observed(k)) =>
                IF Observed(k - 1)
                THEN /\ Sales(k) = Total(k) - Total(k - 1)
                     /\ Note(k) = "Delta" <=> (k # Last /\ IndexLabel(k) # 0)
                     /\ Note(k) \in {"Delta", "Assumed"}
                ELSE Note(k) = "Assumed"

C3_Witness ==
    /\ GapFilled
    /\ \E k \in Days :
          /\ k # 0 /\ k # Last /\ Observed(k) /\ Observed(k - 1)
          /\ Note(k) = "Delta" /\ Sales(k) # 0
    /\ \E k \in Days : k # 0 /\ Observed(k) /\ ~Observed(k - 1)

\* C4: a run of days without observation between an observed day s and the
\* next observed day e gets, on every day after s up to and including e, the
\* integer nearest to (total(e) - total(s)) / (e - s), ties to even, and the
\* note Assumed; with the rows in date order day 0 has delta 0 and Assumed.
C4_GapAverage ==
    GapFilled =>
        /\ \A s \in Days : \A e \in Days :
              ( /\ Observed(s) /\ Observed(e) /\ e - s >= 2
                /\ \A j \in (s + 1)..(e - 1) : ~Observed(j) )
              => \A j \in (s + 1)..e :
                    /\ IsNearestTiesEven(Sales(j), Total(e) - Total(s), e - s)
                    /\ Note(j) = "Assumed"
        /\ IndexLabel(0) = 0 => (Sales(0) = 0 /\ Note(0) = "Assumed")

\* Observations (day 1, 0) and (day 3, 3): three days with deltas 0, 2, 2.
C4_Witness ==
    /\ GapFilled
    /\ Len0(df_final) = 3
    /\ Observed(0) /\ ~Observed(1) /\ Observed(2)
    /\ Total(0) = 0 /\ Total(2) = 3
    /\ Sales(0) = 0 /\ Sales(1) = 2 /\ Sales(2) = 2
    /\ \A k \in Days : Note(k) = "Assumed"

\* C5: a day is flagged when the model labels it an outlier or when its
\* gap-filled delta is below 0, and every flagged day carries the note Assumed
\* in the returned series.
C5_FlaggedAssumed ==
    /\ pc = "correct" =>
          \A k \in Days : (iso_anomalies[k] \/ Sales(k) < 0) => anomalies[k]
    /\ pc = "done" =>
          \A k \in Days :
              /\ (iso_anomalies[k] \/ negatives[k]) => anomalies[k]
              /\ anomalies[k] => Note(k) = "Assumed"

C5_Witness ==
    /\ pc = "done"
    /\ \E k \in Days : negatives[k] /\ ~iso_anomalies[k] /\ Observed(k)
                       /\ k # 0 /\ k # Last /\ Observed(k - 1) /\ IndexLabel(k) # 0
    /\ \E k \in Days : iso_anomalies[k] /\ ~negatives[k]

\* C6: in the returned series every flagged day with no non-flagged day before
\* it, or none after it, has delta 0.
C6_EdgeRunsZero ==
    pc = "done" =>
        \A k \in Days :
            ( /\ anomalies[k]
              /\ \/ \A j \in Unflagged : j > k
                 \/ \A j \in Unflagged : j < k )
            => Sales(k) = 0

\* C7: with every calendar day observed and no day flagged, the returned delta
\* of day 0 is 0 and that of every later day is its total minus the total of
\* the day before.
C7_RoundTrip ==
    (pc = "done" /\ (\A k \in Days : Observed(k)) /\ Unflagged = Days) =>
        /\ Sales(0) = 0
        /\ \A k \in Days \ {0} : Sales(k) = Total(k) - Total(k - 1)

C7_Witness ==
    /\ pc = "done"
    /\ Len0(df_final) = 3
    /\ \A k \in Days : Observed(k)
    /\ Unflagged = Days
    /\ Sales(1) = 2 /\ Sales(2) = 1

\* C8 as stated: the anomaly list holds exactly one pair for every flagged day
\* and none for any other day, each with that day's delta before correction.
C8_OnePairPerFlaggedDay ==
    pc = "correct" =>
        /\ \A k \in Days :
              anomalies[k] =>
                  /\ Cardinality({n \in DOMAIN original_anomalies :
                        original_anomalies[n].Date = df_final[k].Date}) = 1
                  /\ \A n \in DOMAIN original_anomalies :
                        original_anomalies[n].Date = df_final[k].Date
                        => original_anomalies[n].Daily_Sales = Sales(k)
        /\ \A n \in DOMAIN original_anomalies :
              \E k \in Days : anomalies[k] /\ original_anomalies[n].Date = df_final[k].Date

\* C8 amended: the anomaly list holds exactly one pair for every flagged day
\* that had a raw observation and no pair for any other day, and the delta of
\* each pair is the normalizer's delta of that day (its total minus the total
\* of the previous observation, 0 on the earliest day).
C8_OnePairPerFlaggedObservedDay ==
    pc \in {"correct", "done"} =>
        /\ \A k \in Days :
              LET pairs == {n \in DOMAIN original_anomalies :
                              original_anomalies[n].Date = df_final[k].Date}
              IN  IF anomalies[k] /\ Observed(k)
                  THEN /\ Cardinality(pairs) = 1
                       /\ \A n \in pairs :
                             original_anomalies[n].Daily_Sales = NormalizerDelta(k)
                  ELSE pairs = {}
        /\ \A n \in DOMAIN original_anomalies :
              \E k \in Days : original_anomalies[n].Date = df_final[k].Date

C8_Witness ==
    /\ pc = "correct"
    /\ \E k \in Days : anomalies[k] /\ ~Observed(k)
    /\ \E k \in Days : anomalies[k] /\ Observed(k) /\ Sales(k) # NormalizerDelta(k)
    /\ \E k \in Days : ~anomalies[k] /\ Observed(k)

\* C9: the corrector gives every flagged day that has a non-flagged day on both
\* sides an integer nearest to the straight line, over the day index, between
\* its nearest non-flagged neighbour on the left and on the right, and leaves
\* the non-flagged days as they were.
C9_InteriorInterpolated ==
    [][pc = "correct" =>
        \A k \in Days :
            LET before == {j \in Unflagged : j < k}
                after  == {j \in Unflagged : j > k}
            IN  /\ (anomalies[k] /\ before # {} /\ after # {}) =>
                      LET l == Max(before)
                          r == Min(after)
                      IN  IsNearest(Val(df_final'[k].Daily_Sales),
                                    Sales(l) * (r - l) + (Sales(r) - Sales(l)) * (k - l),
                                    r - l)
                /\ ~anomalies[k] => Val(df_final'[k].Daily_Sales) = Sales(k)]_vars

\* Deltas 0, -3, 3 with only the negative day flagged become 0, 2, 3.
C9_Witness ==
    /\ pc = "done"
    /\ Len0(df_final) = 3
    /\ anomalies[1] /\ negatives[1] /\ ~anomalies[0] /\ ~anomalies[2]
    /\ Sales(0) = 0 /\ Sales(1) = 2 /\ Sales(2) = 3

\* C10: every delta of the returned series is at least 0.
C10_NoNegativeReturned == pc = "done" => \A k \in Days : Sales(k) >= 0

C10_Witness ==
    /\ pc = "done"
    /\ \E k \in Days : negatives[k] /\ ~iso_anomalies[k]
    /\ \E k \in Days : Sales(k) > 0

===========================================================================
